---- MODULE Spec2Model ----
(***************************************************************************)
(* A model of the zeromev fetch client of have-i-been-meved                *)
(* (src/lib/zero_mev_api/api.py), of the transformers that summarize the   *)
(* transactions (src/bots/lib/zero_mev/transformers.py) and of the message *)
(* templates (src/bots/lib/templates/__init__.py).                         *)
(*                                                                         *)
(* SpecAddress  get_all_mev_transactions_related_to_address: two paginated *)
(*              fetches run concurrently and their results concatenated.   *)
(* SpecRate     fetch_all_mev_from_block under its rate limiter, called    *)
(*              by one caller, one call after the other.                   *)
(* SpecWeek     get_all_mev_transactions_on_last_week over a week of       *)
(*              MaxChunks chunks: the launch loop, the tasks, the          *)
(*              semaphore, the rate limiter and the gather.                *)
(* SpecRange    the launch loop of get_all_mev_transactions_on_last_week   *)
(*              over the 46523 blocks of the code, with no task scheduled. *)
(* SpecWeekFair SpecWeek under the assumption that a step is taken while   *)
(*              one is possible.                                           *)
(* SpecScan     preprocess, then get_scan_address_data_from_mev_-          *)
(*              transactions, on every frame of up to MaxTxs rows.         *)
(* SpecTemplate create_twitter_post and create_discord_embed on every      *)
(*              template class and every combination of image arguments.   *)
(*                                                                         *)
(* Time is counted in ticks, TicksPerSecond to the second, and kept as     *)
(* time left (of a sleep, of the limiter's window) rather than as a clock  *)
(* reading.  The event loop is single-threaded: a step of a coroutine runs *)
(* from one await to the next and no other coroutine runs in between.      *)
(***************************************************************************)
EXTENDS Integers, Sequences, FiniteSets, TLC

VARIABLES
    \* ---- get_all_mev_transactions_related_to_address -------------------
    fpc,          \* per filter key: position of the paginated fetch
    page,         \* per filter key: params["page"]
    all_data,     \* per filter key: the local list all_data
    fret,         \* per filter key: the list the fetch returned
    reqlog,       \* per filter key: page numbers requested, in order
    resplog,      \* per filter key: what each request got back, in order
    mpc,          \* position of get_all_mev_transactions_related_to_address
    out,          \* the list it returned
    \* ---- the rate limiter around fetch_all_mev_from_block ---------------
    period_remaining, \* ticks until the limiter's current window has elapsed
    num_calls,    \* the limiter's count of attempts in the current window
    sleep_left,   \* ticks left of the time.sleep of sleep_and_retry
    \* ---- a caller issuing calls of fetch_all_mev_from_block in sequence -
    rpc,          \* "call", "sleeping" (in time.sleep), "retry" or "done"
    started,      \* calls whose body has started
    elapsed,      \* ticks since the first call was issued (saturating)
    waits,        \* attempts the limiter rejected
    retried,      \* calls that started on a retry
    idle,         \* the caller let time pass with no call outstanding
    phase,        \* ticks between the opening of the window that admitted
                  \* the first call and that call
    recent,       \* ages, in ticks, of the calls started less than 1 s ago
    window_starts,\* calls started since the limiter's last reset
    \* ---- get_all_mev_transactions_on_last_week --------------------------
    wpc,          \* "head", "loop", "sleep", "gather", "returned" or "raised"
    latest,       \* latest_eth_block_number
    week_ago,     \* eth_block_number_1_week_ago
    tasks,        \* the list tasks: the arguments of each bounded_fetch
    tpc,          \* per task: "pending", "admitted", "rate_wait", "retry",
                  \* "sent", "completed" or "failed"
    tresult,      \* per task: the value its bounded_fetch returned
    sem,          \* the semaphore's value: free permits
    main_sleep_left, \* ticks left of the loop's asyncio.sleep(1)
    sends,        \* per task: requests it has sent to the upstream
    out_of_order, \* a task finished while one created before it had not
    faults,       \* responses so far that were not a success
    head_lookups, \* calls of get_latest_eth_block
    launch_elapsed, \* ticks since the first task was created (saturating)
    week_out,     \* the list get_all_mev_transactions_on_last_week returned
    \* ---- preprocess and get_scan_address_data_from_mev_transactions -----
    spc,          \* "start", "preprocessed", "scanned" or "raised"
    mev_transactions, \* the frame preprocess is called with
    dropna_columns,   \* its three configuration arguments
    protocols_filter,
    type_filter,
    frame,        \* the frame preprocess returned
    scan,         \* the ScanAddressData
    \* ---- create_twitter_post and create_discord_embed -------------------
    cpc,          \* "call", "returned" or "raised"
    cls,          \* the template class the method is called on
    has_image,    \* the arguments has_image, x_image, y_image
    x_image,
    y_image,
    output,       \* the keys of the dict returned, and the image it holds
    error,        \* the exception raised
    generated     \* calls of cls._generate_image

addrVars == <<fpc, page, all_data, fret, reqlog, resplog, mpc, out>>
limiterVars == <<period_remaining, num_calls, sleep_left>>
rateVars == <<rpc, started, elapsed, waits, retried, idle, phase, recent, window_starts>>
weekVars == <<wpc, latest, week_ago, tasks, tpc, tresult, sem, main_sleep_left,
              sends, out_of_order, faults, head_lookups, launch_elapsed,
              week_out>>
scanVars == <<spc, mev_transactions, dropna_columns, protocols_filter,
              type_filter, frame, scan>>
templateVars == <<cpc, cls, has_image, x_image, y_image, output, error, generated>>
botVars == <<scanVars, templateVars>>
vars == <<addrVars, limiterVars, rateVars, weekVars, botVars>>

-----------------------------------------------------------------------------
(* Program constants and bounds *)

\* api.py:31  a page shorter than this ends the pagination loop
PAGE_SIZE == 1000

\* the upstream delivers at most this many full pages to one fetch
MaxFullPages == 2

\* api.py:10
MAX_CALLS_PER_SECOND == 5

\* api.py:59  period=1, in seconds
PERIOD == 1

\* the clock's resolution: ticks in one second
TicksPerSecond == 2

PeriodTicks == PERIOD * TicksPerSecond

\* calls the sequential caller issues
NumCalls == 12

\* api.py:15-16  the two filter keys, in the order gather receives them
Keys == <<"address_from", "address_to">>
KeySet == {Keys[i] : i \in 1..Len(Keys)}

\* sizes of the pages a successful response may carry
PageSizes == {0, 437, PAGE_SIZE - 1, PAGE_SIZE}

-----------------------------------------------------------------------------
(* The upstream's answers *)

\* One element of a response body.  A transaction object is <<"tx", key, page,
\* index>>; the transaction in which the address is both sender and receiver
\* is the first record of page 1 under either key.  A member name of a JSON
\* object (what iterating a dict yields) is <<"str", ...>>.
TxRecord(key, p, i) ==
    IF p = 1 /\ i = 1 THEN <<"tx", "both", 1, 1>> ELSE <<"tx", key, p, i>>

\* the JSON array of n transaction objects that is page p under key
PageData(key, p, n) == [i \in 1..n |-> TxRecord(key, p, i)]

\* the JSON object of an error body: iterating it yields its member names
ErrorBody(key, p) == <<<<"str", key, p, 1>>>>

\* What a page request can come back with.  client.get raises on a network
\* error and returns a response for every status; r.json() raises when the
\* body is not JSON.  status is "ok" for a success status, else "fail".
Responses ==
    [kind : {"list"}, status : {"ok"}, n : PageSizes]
    \cup [kind : {"neterr", "badjson", "errdict", "errlist"}, status : {"fail"}, n : {0}]

\* api.py:28-29  the value of data, for the responses that yield one
JsonOf(key, p, r) ==
    CASE r.kind = "list"    -> PageData(key, p, r.n)
      [] r.kind = "errlist" -> << >>
      [] r.kind = "errdict" -> ErrorBody(key, p)

\* api.py:28-29  client.get or r.json() raises
Raises(r) == r.kind \in {"neterr", "badjson"}

\* api.py:34  MevTransaction(**d) needs a mapping: a str raises TypeError
IsMapping(d) == d[1] = "tx"

\* api.py:34  the comprehension raises unless every element is a mapping
ConversionRaises(data) == \E i \in 1..Len(data) : ~IsMapping(data[i])

\* api.py:34  [MevTransaction(**d) for d in all_data], when it does not raise
ToTransactions(data) == [i \in 1..Len(data) |-> data[i]]

\* the number of full pages a fetch has received so far
FullPages(log) == Cardinality({i \in 1..Len(log) : log[i].kind = "list" /\ log[i].n = PAGE_SIZE})

-----------------------------------------------------------------------------
(* get_paginated_mev_transactions_by_address_and_key, api.py:21-34 *)

\* api.py:24  params["page"] starts at 1
FirstPage == 1

\* a fetch that skips every other page
NextPageSkips(p) == p + 2

\* api.py:33  params["page"] += 1
NextPage(p) == p + 1

\* api.py:24-28  first run of the coroutine: the first page is requested
StartFetch(k) ==
    /\ fpc[k] = "start"
    /\ page' = [page EXCEPT ![k] = FirstPage]
    /\ all_data' = [all_data EXCEPT ![k] = << >>]
    /\ reqlog' = [reqlog EXCEPT ![k] = Append(@, FirstPage)]
    /\ fpc' = [fpc EXCEPT ![k] = "waiting"]
    /\ UNCHANGED <<fret, resplog, mpc, out, limiterVars, rateVars, weekVars, botVars>>

\* a loop that a full page ends too
LastPageInclusive(data) == Len(data) = 0 \/ Len(data) <= PAGE_SIZE

\* api.py:31  the loop's exit test
LastPage(data) == Len(data) = 0 \/ Len(data) < PAGE_SIZE

\* api.py:28-34  the response to the outstanding request arrives
PageResponse(k, r) ==
    /\ fpc[k] = "waiting"
    /\ (r.kind = "list" /\ r.n = PAGE_SIZE) => FullPages(resplog[k]) < MaxFullPages
    /\ resplog' = [resplog EXCEPT ![k] = Append(@, r)]
    /\ IF Raises(r)
       THEN /\ fpc' = [fpc EXCEPT ![k] = "raised"]
            /\ UNCHANGED <<page, all_data, fret, reqlog>>
       ELSE LET data == JsonOf(k, page[k], r)
                all == all_data[k] \o data
            IN  /\ all_data' = [all_data EXCEPT ![k] = all]
                /\ IF LastPage(data)
                   THEN /\ IF ConversionRaises(all)
                           THEN /\ fpc' = [fpc EXCEPT ![k] = "raised"]
                                /\ fret' = fret
                           ELSE /\ fpc' = [fpc EXCEPT ![k] = "returned"]
                                /\ fret' = [fret EXCEPT ![k] = ToTransactions(all)]
                        /\ UNCHANGED <<page, reqlog>>
                   ELSE /\ page' = [page EXCEPT ![k] = NextPage(@)]
                        /\ reqlog' = [reqlog EXCEPT ![k] = Append(@, NextPage(page[k]))]
                        /\ UNCHANGED <<fpc, fret>>
    /\ UNCHANGED <<mpc, out, limiterVars, rateVars, weekVars, botVars>>

(* get_all_mev_transactions_related_to_address, api.py:13-18 *)

\* a combination that keeps one copy of a transaction found under both keys
CombineDistinct(a, b) ==
    a \o SelectSeq(b, LAMBDA d : \A i \in 1..Len(a) : a[i] # d)

\* api.py:18  [*address_from_transaction, *address_to_transaction]
Combine(a, b) == a \o b

\* api.py:14-18  both fetches returned: gather yields their results in
\* argument order and the two lists are concatenated
GatherReturn ==
    /\ mpc = "gather"
    /\ \A k \in KeySet : fpc[k] = "returned"
    /\ out' = Combine(fret[Keys[1]], fret[Keys[2]])
    /\ mpc' = "returned"
    /\ UNCHANGED <<fpc, page, all_data, fret, reqlog, resplog, limiterVars, rateVars, weekVars, botVars>>

\* api.py:14  a fetch raised: gather raises to the caller
GatherRaise ==
    /\ mpc = "gather"
    /\ \E k \in KeySet : fpc[k] = "raised"
    /\ mpc' = "raised"
    /\ UNCHANGED <<fpc, page, all_data, fret, reqlog, resplog, out, limiterVars, rateVars, weekVars, botVars>>

\* the address fetch before gather has started its two coroutines
AddressStart ==
    /\ fpc = [k \in KeySet |-> "start"]
    /\ page = [k \in KeySet |-> 0]
    /\ all_data = [k \in KeySet |-> << >>]
    /\ fret = [k \in KeySet |-> << >>]
    /\ reqlog = [k \in KeySet |-> << >>]
    /\ resplog = [k \in KeySet |-> << >>]
    /\ mpc = "gather"
    /\ out = << >>

\* the limiter as the decorator builds it (num_calls = 0), t ticks before its
\* first window has elapsed
LimiterAt(t) ==
    /\ period_remaining = t
    /\ num_calls = 0
    /\ sleep_left = 0

\* the sequential caller before its first call
RateStart ==
    /\ rpc = "call"
    /\ started = 0
    /\ elapsed = 0
    /\ waits = 0
    /\ retried = 0
    /\ idle = FALSE
    /\ phase = 0
    /\ recent = << >>
    /\ window_starts = 0

\* get_all_mev_transactions_on_last_week before its first statement
WeekStart ==
    /\ wpc = "head"
    /\ latest = 0
    /\ week_ago = 0
    /\ tasks = << >>
    /\ tpc = << >>
    /\ tresult = << >>
    /\ sem = 0
    /\ main_sleep_left = 0
    /\ sends = << >>
    /\ out_of_order = FALSE
    /\ faults = 0
    /\ head_lookups = 0
    /\ launch_elapsed = 0
    /\ week_out = << >>

\* a ScanAddressData not yet computed
NoScan ==
    [address |-> "", total_amount_usd |-> 0, mev_txs_length |-> 0,
     most_mev_protocol_name |-> "", most_mev_protocol_usd_amount |-> 0]

\* preprocess before it is called, with no frame
ScanIdle ==
    /\ spc = "start"
    /\ mev_transactions = << >>
    /\ dropna_columns = << >>
    /\ protocols_filter = << >>
    /\ type_filter = << >>
    /\ frame = << >>
    /\ scan = NoScan

\* an argument that was not passed: the default None
None == [given |-> FALSE, items |-> << >>]

\* a dict with no key
NoOutput == [keys |-> {}, image |-> << >>, embed_image |-> FALSE]

\* the template methods before they are called
TemplateStart ==
    /\ cpc = "call"
    /\ output = NoOutput
    /\ error = ""
    /\ generated = 0

TemplateIdle ==
    /\ TemplateStart
    /\ cls = ""
    /\ has_image = FALSE
    /\ x_image = None
    /\ y_image = None

BotIdle == ScanIdle /\ TemplateIdle

InitAddress == AddressStart /\ LimiterAt(0) /\ RateStart /\ WeekStart /\ BotIdle

NextAddress ==
    \/ \E k \in KeySet : StartFetch(k)
    \/ \E k \in KeySet : \E r \in Responses : PageResponse(k, r)
    \/ GatherReturn
    \/ GatherRaise

SpecAddress == InitAddress /\ [][NextAddress]_vars

-----------------------------------------------------------------------------
(* Properties of SpecAddress *)

\* the sizes of the pages received so far
SizesOf(log) == [i \in 1..Len(log) |-> log[i].n]

\* every response so far was a success carrying a JSON array
AllLists(log) == \A i \in 1..Len(log) : log[i].kind = "list"

\* the records of the first j pages a fetch under key k received
RECURSIVE RecordsUpTo(_, _, _)
RecordsUpTo(k, log, j) ==
    IF j = 0 THEN << >>
    ELSE RecordsUpTo(k, log, j - 1) \o
         (IF Raises(log[j]) THEN << >> ELSE JsonOf(k, j, log[j]))

RECURSIVE SumSeq(_)
SumSeq(s) == IF s = << >> THEN 0 ELSE s[1] + SumSeq(Tail(s))

ShortPages(log) == {i \in 1..Len(log) : log[i].n < PAGE_SIZE}

\* C1: whatever page sizes the upstream produces, the fetch goes on while
\* every page so far held exactly 1000 records and stops right after the
\* first page that is empty or shorter: if that is the k-th page, k requests
\* were made and the result is the records of pages 1..k.
C1_PaginationStopsAtShortPage ==
    \A k \in KeySet :
        (fpc[k] # "start" /\ AllLists(resplog[k])) =>
            IF ShortPages(resplog[k]) = {}
            THEN /\ fpc[k] = "waiting"
                 /\ Len(reqlog[k]) = Len(resplog[k]) + 1
            ELSE /\ ShortPages(resplog[k]) = {Len(resplog[k])}
                 /\ fpc[k] = "returned"
                 /\ Len(reqlog[k]) = Len(resplog[k])
                 /\ fret[k] = RecordsUpTo(k, resplog[k], Len(resplog[k]))
                 /\ Len(fret[k]) = SumSeq(SizesOf(resplog[k]))

\* sizes [1000, 1000, 437] gave 3 requests and 2437 records, and sizes
\* [1000, 0] gave 2 requests and 1000 records
C1_Witness ==
    /\ AllLists(resplog["address_from"]) /\ AllLists(resplog["address_to"])
    /\ SizesOf(resplog["address_from"]) = <<1000, 1000, 437>>
    /\ Len(reqlog["address_from"]) = 3
    /\ Len(fret["address_from"]) = 2437
    /\ SizesOf(resplog["address_to"]) = <<1000, 0>>
    /\ Len(reqlog["address_to"]) = 2
    /\ Len(fret["address_to"]) = 1000

\* a request was answered by a failure: a network error, a non-success
\* status or a body that is not JSON
SomeFailed(log) == \E i \in 1..Len(log) : log[i].status = "fail"

\* C5: an aggregate fetch has no partial success: a fetch one of whose page
\* requests failed raises and returns nothing, it sends no request after the
\* failed one, and the combined operation returns only when no request failed.
C5_NoPartialSuccess ==
    /\ \A k \in KeySet :
          SomeFailed(resplog[k]) =>
              /\ fpc[k] = "raised"
              /\ fret[k] = << >>
              /\ Len(reqlog[k]) = Len(resplog[k])
    /\ mpc = "returned" => \A k \in KeySet : ~SomeFailed(resplog[k])

Occurrences(s, d) == Cardinality({i \in 1..Len(s) : s[i] = d})

BothTx == TxRecord("address_from", 1, 1)

\* C6: the combined result is the address_from result followed by the
\* address_to result, nothing removed: the lengths add up, and a transaction
\* found under both keys appears once for each.
C6_CombinedKeepsDuplicates ==
    mpc = "returned" =>
        /\ out = fret["address_from"] \o fret["address_to"]
        /\ Len(out) = Len(fret["address_from"]) + Len(fret["address_to"])
        /\ Occurrences(out, BothTx) =
              Occurrences(fret["address_from"], BothTx)
              + Occurrences(fret["address_to"], BothTx)

\* both fetches returned the transaction and the combined result holds it twice
C6_Witness ==
    /\ mpc = "returned"
    /\ Occurrences(fret["address_from"], BothTx) = 1
    /\ Occurrences(fret["address_to"], BothTx) = 1
    /\ Occurrences(out, BothTx) = 2
    /\ Len(out) = 1000 + 437 + 999

\* C9: the pages requested are 1, 2, ..., k in this order, each once, with
\* at most one request outstanding, and the records are kept in the order
\* the pages arrived.
C9_PagesInOrder ==
    \A k \in KeySet :
        /\ reqlog[k] = [i \in 1..Len(reqlog[k]) |-> i]
        /\ Len(reqlog[k]) - Len(resplog[k]) = (IF fpc[k] = "waiting" THEN 1 ELSE 0)
        /\ fpc[k] = "waiting" => page[k] = Len(reqlog[k])
        /\ fpc[k] # "raised" =>
              all_data[k] = RecordsUpTo(k, resplog[k], Len(resplog[k]))
        /\ fpc[k] = "returned" => fret[k] = all_data[k]

\* pages 1, 2, 3 were requested and the records of all three returned in order
C9_Witness ==
    \E k \in KeySet :
        /\ fpc[k] = "returned"
        /\ reqlog[k] = <<1, 2, 3>>
        /\ SizesOf(resplog[k]) = <<1000, 1000, 999>>
        /\ fret[k] = PageData(k, 1, 1000) \o PageData(k, 2, 1000) \o PageData(k, 3, 999)

-----------------------------------------------------------------------------
(* The rate limiter: @sleep_and_retry @limits(calls=5, period=1), api.py:58-59 *)

\* a limiter that lets one call more through in each window
LimitsOffByOne(pr, nc) ==
    LET expired == pr <= 0
        n == (IF expired THEN 0 ELSE nc) + 1
    IN  [period_remaining |-> IF expired THEN PeriodTicks ELSE pr,
         num_calls |-> n,
         reset |-> expired,
         raised |-> n > MAX_CALLS_PER_SECOND + 1,
         wait |-> pr]

\* api.py:59  one attempt under limits: a window that has elapsed is reset
\* (num_calls = 0, last_reset = now), the attempt is counted, and an attempt
\* beyond calls raises RateLimitException carrying the time left in the window
Limits(pr, nc) ==
    LET expired == pr <= 0
        n == (IF expired THEN 0 ELSE nc) + 1
    IN  [period_remaining |-> IF expired THEN PeriodTicks ELSE pr,
         num_calls |-> n,
         reset |-> expired,
         raised |-> n > MAX_CALLS_PER_SECOND,
         wait |-> pr]

\* a retry loop that does not sleep
SleepNone(w) == 0

\* api.py:58  sleep_and_retry: time.sleep(exception.period_remaining)
SleepFor(w) == w

\* one tick of the clock, as the limiter's window sees it
TickDown(t) == IF t > 0 THEN t - 1 ELSE 0

\* one tick of the clock, as the ages of the recent call starts see it
Aged(ages) ==
    SelectSeq([i \in 1..Len(ages) |-> ages[i] + 1], LAMBDA a : a < TicksPerSecond)

\* the clock advances by one tick
TickLimiter ==
    /\ period_remaining' = TickDown(period_remaining)
    /\ sleep_left' = TickDown(sleep_left)
    /\ UNCHANGED num_calls

\* the limiter's part of a call of the decorated function that gets through
LimiterAdmits(l) ==
    /\ period_remaining' = l.period_remaining
    /\ num_calls' = l.num_calls
    /\ UNCHANGED sleep_left

\* the limiter's part of a call that is rejected: the thread goes to sleep
LimiterRejects(l) ==
    /\ period_remaining' = l.period_remaining
    /\ num_calls' = l.num_calls
    /\ sleep_left' = SleepFor(l.wait)

(* Calls of fetch_all_mev_from_block issued one after the other, api.py:58-66 *)

ElapsedCap == 3 * PeriodTicks

\* api.py:58-66  the caller calls the decorated function, or sleep_and_retry
\* calls it again after its sleep
RateAttempt ==
    /\ rpc \in {"call", "retry"}
    /\ LET l == Limits(period_remaining, num_calls)
       IN  IF l.raised
           THEN /\ LimiterRejects(l)
                /\ rpc' = "sleeping"
                /\ waits' = waits + 1
                /\ UNCHANGED <<started, retried, phase, recent, window_starts>>
           ELSE /\ LimiterAdmits(l)
                /\ window_starts' = (IF l.reset THEN 0 ELSE window_starts) + 1
                /\ recent' = Append(recent, 0)
                /\ started' = started + 1
                /\ rpc' = IF started + 1 = NumCalls THEN "done" ELSE "call"
                /\ retried' = IF rpc = "retry" THEN retried + 1 ELSE retried
                /\ phase' = IF started > 0 THEN phase
                            ELSE IF l.reset THEN 0 ELSE PeriodTicks - period_remaining
                /\ UNCHANGED waits
    /\ UNCHANGED <<elapsed, idle, addrVars, weekVars, botVars>>

\* api.py:58  time.sleep returns and the loop of sleep_and_retry goes round
RateWake ==
    /\ rpc = "sleeping"
    /\ sleep_left = 0
    /\ rpc' = "retry"
    /\ UNCHANGED <<started, elapsed, waits, retried, idle, phase, recent,
                   window_starts, limiterVars, addrVars, weekVars, botVars>>

\* a tick passes after the first call was issued
RateTick ==
    /\ started > 0
    /\ rpc # "done"
    /\ TickLimiter
    /\ recent' = Aged(recent)
    /\ elapsed' = IF elapsed < ElapsedCap THEN elapsed + 1 ELSE elapsed
    /\ idle' = (idle \/ rpc # "sleeping")
    /\ UNCHANGED <<rpc, started, waits, retried, phase, window_starts, addrVars, weekVars, botVars>>

\* the first call comes any time after the decorator was applied
InitRate ==
    /\ \E t \in 0..PeriodTicks : LimiterAt(t)
    /\ RateStart
    /\ AddressStart
    /\ WeekStart
    /\ BotIdle

NextRate == RateAttempt \/ RateWake \/ RateTick

SpecRate == InitRate /\ [][NextRate]_vars

-----------------------------------------------------------------------------
(* Properties of SpecRate *)

\* C3 as stated: in any rolling 1-second interval at most 5 calls start
C3_RollingWindow == Len(recent) <= MAX_CALLS_PER_SECOND

\* C3: in every window of the limiter - from a reset until 1 second later -
\* at most 5 calls start, hence at most 10 in any rolling 1-second interval;
\* a call beyond the limit is not failed: the thread sleeps for what is left
\* of the window and the call starts on the retry.
C3_FixedWindow ==
    /\ window_starts <= MAX_CALLS_PER_SECOND
    /\ Len(recent) <= 2 * MAX_CALLS_PER_SECOND
    /\ waits = retried + (IF rpc \in {"sleeping", "retry"} THEN 1 ELSE 0)
    /\ rpc = "sleeping" =>
          /\ sleep_left = period_remaining
          /\ num_calls = MAX_CALLS_PER_SECOND + 1
    /\ rpc = "retry" => period_remaining = 0

\* 9 calls started within one second, 5 of them after a rejected call slept
\* to the end of the window and was retried
C3_Witness ==
    /\ Len(recent) = 2 * MAX_CALLS_PER_SECOND - 1
    /\ retried > 0
    /\ window_starts = MAX_CALLS_PER_SECOND

\* the waits 12 calls need when none of them finds a window already open
WaitsNeeded == (NumCalls - 1) \div MAX_CALLS_PER_SECOND

\* C4 as stated: 12 calls issued as fast as possible take two window waits
\* and are not all under way before 2 full seconds have elapsed
C4_TwoFullSeconds ==
    (rpc = "done" /\ ~idle) =>
        /\ waits = WaitsNeeded
        /\ elapsed >= WaitsNeeded * PeriodTicks

\* C4: 12 calls issued as fast as possible take two window waits; the last
\* starts more than 1 second after the first, and no earlier than 2 seconds
\* after the opening of the window that admitted the first (the decorator
\* opens the first window, so it may have been open for a while).
C4_TwoWindowWaits ==
    rpc = "done" =>
        /\ ~idle => waits = WaitsNeeded
        /\ elapsed > (WaitsNeeded - 1) * PeriodTicks
        /\ elapsed + phase >= WaitsNeeded * PeriodTicks

\* all 12 calls made with no pause, less than 2 seconds after the first
C4_Witness ==
    /\ rpc = "done" /\ ~idle
    /\ started = NumCalls
    /\ waits = WaitsNeeded
    /\ phase > 0
    /\ elapsed < WaitsNeeded * PeriodTicks

-----------------------------------------------------------------------------
(* get_all_mev_transactions_on_last_week and bounded_fetch, api.py:37-77 *)

\* api.py:40  1 week approx 46523 blocks
WEEK_BLOCKS == 46523

\* api.py:47-48  the step of the range and the count of every query
CHUNK == 100

\* api.py:52  asyncio.sleep(1), in seconds
LAUNCH_SLEEP == 1

\* the chunks of the short week the concurrent specification launches
MaxChunks == 6

\* a week of MaxChunks chunks that, like 46523, is no multiple of 100
ShortWeek == CHUNK * (MaxChunks - 1) + 23

\* responses that are not a success, in one run
MaxFaults == 1

\* the time since the first task was created is counted up to the 1 second
\* per task the launch loop owes from the fifth task on
LaunchCap == (MaxChunks - MAX_CALLS_PER_SECOND) * LAUNCH_SLEEP * TicksPerSecond

\* the chain heads the lookup may report
WeekHeads == {18000000}
RangeHeads == {WEEK_BLOCKS, 18000000, 18000077}

\* a week that starts after the head
WeekAgoAdded(head, offset) == head + offset

\* api.py:39-41  eth_block_number_1_week_ago
WeekAgo(head, offset) == head - offset

\* api.py:47  len(range(start, stop, step)) for a positive step
RangeLen(start, stop, step) ==
    IF stop > start THEN (stop - start + step - 1) \div step ELSE 0

\* api.py:47  range(start, stop, step)[i - 1]
RangeAt(start, step, i) == start + step * (i - 1)

\* the transaction objects the upstream holds for the 100 blocks from b
ChunkData(b) == [i \in 1..((b \div CHUNK) % 3) |-> <<"tx", "block", b, i>>]

\* What a block-range request can come back with: as a page request, the
\* successful array being the chain's data for the range.
ChunkResponses == {"list", "neterr", "badjson", "errdict", "errlist"}

\* api.py:65-66  the value of r.json(), for the responses that yield one
ChunkJsonOf(b, kind) ==
    CASE kind = "list"    -> ChunkData(b)
      [] kind = "errlist" -> << >>
      [] kind = "errdict" -> ErrorBody("block", b)

\* api.py:65-66  client.get or r.json() raises
ChunkRaises(kind) == kind \in {"neterr", "badjson"}

\* a semaphore of one permit too many
SemaphoreTooWide == MAX_CALLS_PER_SECOND + 1

\* api.py:44  asyncio.Semaphore(MAX_CALLS_PER_SECOND)
Semaphore == MAX_CALLS_PER_SECOND

\* the loop thread is inside a task's step: from the acquisition of the
\* semaphore to the start of the request nothing is awaited, and time.sleep
\* blocks the thread
TaskRunning == \E i \in 1..Len(tpc) : tpc[i] \in {"admitted", "rate_wait", "retry"}

\* the main coroutine is suspended in an await, so tasks can run; once it
\* has returned or raised, the tasks are followed no further
MainSuspended == wpc \in {"sleep", "gather"}

\* api.py:38-41  the chain head is looked up and the week's start computed
HeadLookup(h, offset) ==
    /\ wpc = "head"
    /\ head_lookups' = head_lookups + 1
    /\ latest' = h
    /\ week_ago' = WeekAgo(h, offset)
    /\ sem' = Semaphore
    /\ wpc' = "loop"
    /\ UNCHANGED <<tasks, tpc, tresult, main_sleep_left, sends, out_of_order,
                   faults, week_out, limiterVars, rateVars, launch_elapsed, addrVars, botVars>>

\* api.py:38  get_latest_eth_block raises: nothing catches it
HeadLookupFails ==
    /\ wpc = "head"
    /\ head_lookups' = head_lookups + 1
    /\ wpc' = "raised"
    /\ UNCHANGED <<latest, week_ago, tasks, tpc, tresult, sem, main_sleep_left,
                   sends, out_of_order, faults, week_out, limiterVars, rateVars,
                   launch_elapsed, addrVars, botVars>>

\* a loop that pauses only once more than five tasks exist
LaunchPauseLate(n) == n > MAX_CALLS_PER_SECOND

\* api.py:51  if len(tasks) >= MAX_CALLS_PER_SECOND
LaunchPause(n) == n >= MAX_CALLS_PER_SECOND

\* api.py:47-54  one round of the for loop: the next task is created, and
\* the coroutine sleeps once five tasks exist; after the last block, gather
LaunchNext ==
    /\ wpc = "loop"
    /\ IF Len(tasks) < RangeLen(week_ago, latest, CHUNK)
       THEN /\ tasks' = Append(tasks,
                   [block_number |-> RangeAt(week_ago, CHUNK, Len(tasks) + 1),
                    count |-> CHUNK])
            /\ tpc' = Append(tpc, "pending")
            /\ tresult' = Append(tresult, << >>)
            /\ sends' = Append(sends, 0)
            /\ IF LaunchPause(Len(tasks) + 1)
               THEN /\ wpc' = "sleep"
                    /\ main_sleep_left' = LAUNCH_SLEEP * TicksPerSecond
               ELSE UNCHANGED <<wpc, main_sleep_left>>
       ELSE /\ wpc' = "gather"
            /\ UNCHANGED <<tasks, tpc, tresult, sends, main_sleep_left>>
    /\ UNCHANGED <<latest, week_ago, sem, out_of_order, faults, head_lookups,
                   week_out, limiterVars, rateVars, launch_elapsed, addrVars, botVars>>

\* api.py:52  asyncio.sleep(1) is over and the loop thread is free
LaunchWake ==
    /\ wpc = "sleep"
    /\ main_sleep_left = 0
    /\ ~TaskRunning
    /\ wpc' = "loop"
    /\ UNCHANGED <<latest, week_ago, tasks, tpc, tresult, sem, main_sleep_left,
                   sends, out_of_order, faults, head_lookups, week_out,
                   limiterVars, rateVars, launch_elapsed, addrVars, botVars>>

\* an acquire that never waits
AcquirableAlways(s) == TRUE

\* api.py:75  Semaphore.acquire goes through when the value is positive
Acquirable(s) == s > 0

\* api.py:75  async with sem: the task takes a permit.  Tasks reach the
\* semaphore in the order of their creation and it serves them in that order.
TaskAdmit(i) ==
    /\ MainSuspended /\ ~TaskRunning
    /\ tpc[i] = "pending"
    /\ \A j \in 1..(i - 1) : tpc[j] # "pending"
    /\ Acquirable(sem)
    /\ sem' = sem - 1
    /\ tpc' = [tpc EXCEPT ![i] = "admitted"]
    /\ UNCHANGED <<wpc, latest, week_ago, tasks, tresult, main_sleep_left, sends,
                   out_of_order, faults, head_lookups, week_out, limiterVars,
                   rateVars, launch_elapsed, addrVars, botVars>>

\* the function as defined, without its decorators: no attempt is rejected
fetch_undecorated(pr, nc) == [Limits(pr, nc) EXCEPT !.raised = FALSE]

\* api.py:58-60  the name fetch_all_mev_from_block is bound to the function
\* wrapped by sleep_and_retry(limits(...)): a call is an attempt under limits
fetch_all_mev_from_block(pr, nc) == Limits(pr, nc)

\* api.py:76, 58-65  the task calls the decorated function: the limiter lets
\* the call start and the request goes out, or rejects it and the thread
\* sleeps in sleep_and_retry
TaskCall(i) ==
    /\ tpc[i] \in {"admitted", "retry"}
    /\ LET l == fetch_all_mev_from_block(period_remaining, num_calls)
       IN  IF l.raised
           THEN /\ LimiterRejects(l)
                /\ tpc' = [tpc EXCEPT ![i] = "rate_wait"]
                /\ UNCHANGED <<sends, window_starts>>
           ELSE /\ LimiterAdmits(l)
                /\ tpc' = [tpc EXCEPT ![i] = "sent"]
                /\ sends' = [sends EXCEPT ![i] = @ + 1]
                /\ window_starts' = (IF l.reset THEN 0 ELSE window_starts) + 1
    /\ UNCHANGED <<wpc, latest, week_ago, tasks, tresult, sem, main_sleep_left,
                   out_of_order, faults, head_lookups, week_out, launch_elapsed,
                   rpc, started, elapsed, waits, retried, idle, phase, recent,
                   addrVars, botVars>>

\* api.py:58  time.sleep returns and sleep_and_retry calls again
TaskWake(i) ==
    /\ tpc[i] = "rate_wait"
    /\ sleep_left = 0
    /\ tpc' = [tpc EXCEPT ![i] = "retry"]
    /\ UNCHANGED <<wpc, latest, week_ago, tasks, tresult, sem, main_sleep_left,
                   sends, out_of_order, faults, head_lookups, week_out,
                   limiterVars, rateVars, launch_elapsed, addrVars, botVars>>

\* a fetch that is called again after it raised
AfterRaiseRetry == "retry"

\* api.py:75-77  bounded_fetch catches nothing: the exception ends the task
AfterRaise == "failed"

\* a semaphore that never gets a permit back
ReleaseNever(s, kind) == s

\* a semaphore that gets its permit back only from a fetch that returned
ReleaseOnReturn(s, kind) == IF ChunkRaises(kind) THEN s ELSE s + 1

\* api.py:75  leaving async with sem, by return or by exception: sem.release()
Release(s, kind) == s + 1

\* api.py:65-66, 75-77  the response arrives: r.json() is returned or the
\* exception leaves bounded_fetch, and the permit is released either way
TaskResponse(i, kind) ==
    /\ MainSuspended /\ ~TaskRunning
    /\ tpc[i] = "sent"
    /\ kind # "list" => faults < MaxFaults
    /\ faults' = IF kind = "list" THEN faults ELSE faults + 1
    /\ IF ChunkRaises(kind)
       THEN /\ tpc' = [tpc EXCEPT ![i] = AfterRaise]
            /\ UNCHANGED tresult
       ELSE /\ tpc' = [tpc EXCEPT ![i] = "completed"]
            /\ tresult' = [tresult EXCEPT ![i] = ChunkJsonOf(tasks[i].block_number, kind)]
    /\ sem' = Release(sem, kind)
    /\ out_of_order' = (out_of_order \/ \E j \in 1..(i - 1) : tpc[j] \notin {"completed", "failed"})
    /\ UNCHANGED <<wpc, latest, week_ago, tasks, main_sleep_left, sends,
                   head_lookups, week_out, limiterVars, rateVars, launch_elapsed, addrVars, botVars>>

RECURSIVE Flatten(_)
\* api.py:55  for response in responses for d in response
Flatten(responses) ==
    IF responses = << >> THEN << >>
    ELSE Head(responses) \o Flatten(Tail(responses))

\* a gather that yields the results of the latest task first
ResultsLatestFirst == [n \in 1..Len(tresult) |-> tresult[Len(tresult) + 1 - n]]

\* api.py:54  asyncio.gather(*tasks): the results in the order of tasks
GatherResults == tresult

\* api.py:54-55  gather raises the exception of a task that failed; when
\* every task is done the responses are flattened into MevTransactions
WeekGather ==
    /\ wpc = "gather"
    /\ ~TaskRunning
    /\ IF \E i \in 1..Len(tpc) : tpc[i] = "failed"
       THEN /\ wpc' = "raised"
            /\ UNCHANGED week_out
       ELSE /\ \A i \in 1..Len(tpc) : tpc[i] = "completed"
            /\ LET all == Flatten(GatherResults)
               IN  IF ConversionRaises(all)
                   THEN /\ wpc' = "raised"
                        /\ UNCHANGED week_out
                   ELSE /\ wpc' = "returned"
                        /\ week_out' = ToTransactions(all)
    /\ UNCHANGED <<latest, week_ago, tasks, tpc, tresult, sem, main_sleep_left,
                   sends, out_of_order, faults, head_lookups, limiterVars,
                   rateVars, launch_elapsed, addrVars, botVars>>

\* a tick passes while the main coroutine is suspended
WeekTick ==
    /\ MainSuspended
    /\ \A i \in 1..Len(tpc) : tpc[i] \notin {"admitted", "retry"}
    /\ TickLimiter
    /\ main_sleep_left' = TickDown(main_sleep_left)
    /\ launch_elapsed' = IF tasks # << >> /\ launch_elapsed < LaunchCap
                         THEN launch_elapsed + 1 ELSE launch_elapsed
    /\ UNCHANGED <<wpc, latest, week_ago, tasks, tpc, tresult, sem, sends,
                   out_of_order, faults, head_lookups, week_out, rateVars, addrVars, botVars>>

\* the operation is called any time after the decorator was applied
InitWeek ==
    /\ \E t \in 0..PeriodTicks : LimiterAt(t)
    /\ WeekStart
    /\ RateStart
    /\ AddressStart
    /\ BotIdle

NextWeek ==
    \/ \E h \in WeekHeads : HeadLookup(h, ShortWeek)
    \/ HeadLookupFails
    \/ LaunchNext
    \/ LaunchWake
    \/ \E i \in 1..Len(tpc) : TaskAdmit(i)
    \/ \E i \in 1..Len(tpc) : TaskCall(i)
    \/ \E i \in 1..Len(tpc) : TaskWake(i)
    \/ \E i \in 1..Len(tpc) : \E kind \in ChunkResponses : TaskResponse(i, kind)
    \/ WeekGather
    \/ WeekTick

SpecWeek == InitWeek /\ [][NextWeek]_vars

\* The event loop runs a coroutine that is ready to run, the clock advances
\* and the upstream answers the requests it was sent: as long as any step is
\* possible, one is taken.
WeekFairness == WF_vars(NextWeek)

SpecWeekFair == InitWeek /\ [][NextWeek]_vars /\ WeekFairness

\* the launch loop alone, over the week the code computes: tasks are created
\* and the coroutine sleeps, and no task is scheduled
NextRange ==
    \/ \E h \in RangeHeads : HeadLookup(h, WEEK_BLOCKS)
    \/ HeadLookupFails
    \/ LaunchNext
    \/ LaunchWake
    \/ WeekTick

SpecRange == InitWeek /\ [][NextRange]_vars

-----------------------------------------------------------------------------
(* Properties of SpecWeek *)

\* the tasks whose request is sent and not yet answered
Unresolved == {i \in 1..Len(tpc) : tpc[i] = "sent"}

\* C2: at no point do more than MAX_CALLS_PER_SECOND (5) chunk requests have
\* an unresolved response, whatever the order of the responses: every
\* unresolved request holds one of the semaphore's permits.
C2_InFlightCapped ==
    /\ Cardinality(Unresolved) <= MAX_CALLS_PER_SECOND
    /\ Cardinality(Unresolved) <= MAX_CALLS_PER_SECOND - sem

\* five requests are unresolved and a sixth task waits for a permit
C2_Witness ==
    /\ Cardinality(Unresolved) = MAX_CALLS_PER_SECOND
    /\ sem = 0
    /\ \E i \in 1..Len(tpc) : tpc[i] = "pending"

\* the chunk start blocks, in ascending order
ChunkStarts == [i \in 1..Len(tasks) |-> week_ago + CHUNK * (i - 1)]

\* C8: the records returned are the chunk responses concatenated in task
\* launch order, which is ascending chunk start block, in whatever order the
\* responses completed.
C8_LaunchOrder ==
    wpc = "returned" =>
        /\ \A i \in 1..Len(tasks) : tasks[i].block_number = ChunkStarts[i]
        /\ week_out = Flatten([i \in 1..Len(tasks) |-> tresult[i]])
        /\ faults = 0 =>
              week_out = Flatten([i \in 1..Len(tasks) |-> ChunkData(ChunkStarts[i])])

\* the operation returned the records of every chunk although a later chunk
\* was answered before an earlier one
C8_Witness ==
    /\ wpc = "returned"
    /\ out_of_order
    /\ faults = 0
    /\ Len(tasks) = MaxChunks
    /\ Len(week_out) > 2
    /\ week_out[1][3] < week_out[Len(week_out)][3]

\* the tasks that hold a permit of the semaphore
Holders == {i \in 1..Len(tpc) : tpc[i] \in {"admitted", "rate_wait", "retry", "sent"}}

\* the moves of one chunk request: Pending, admitted by the gate, waiting for
\* the rate window (asleep in sleep_and_retry, then the retry), Sent, and
\* Completed or Failed; a call the limiter lets through at once goes from
\* admitted to Sent
LifecycleStep(a, b) ==
    \/ a = b
    \/ <<a, b>> \in {<<"pending", "admitted">>,
                     <<"admitted", "rate_wait">>, <<"admitted", "sent">>,
                     <<"rate_wait", "retry">>, <<"retry", "sent">>,
                     <<"sent", "completed">>, <<"sent", "failed">>}

\* C14: every chunk request moves Pending -> admitted -> waiting for the rate
\* window -> Sent -> Completed or Failed in this order only; a request goes
\* out only from a task that holds a permit, at most once per task, and a
\* task never leaves Completed or Failed; the aggregate fetch does not return
\* when a task failed, and raises once it awaits gather.
C14_RequestLifecycle ==
    [][/\ \A i \in 1..Len(tpc) :
              /\ LifecycleStep(tpc[i], tpc'[i])
              /\ sends'[i] > sends[i] => tpc[i] \in {"admitted", "retry"} /\ i \in Holders
              /\ sends'[i] <= 1
              /\ sends'[i] = 1 <=> tpc'[i] \in {"sent", "completed", "failed"}
       /\ Len(tpc') >= Len(tpc)
       /\ wpc' = "returned" => \A i \in 1..Len(tpc') : tpc'[i] = "completed"
       /\ (wpc = "gather" /\ wpc' # "gather" /\ \E i \in 1..Len(tpc) : tpc[i] = "failed")
              => wpc' = "raised"]_vars

\* a request was sent once and failed, others completed, and the aggregate
\* fetch raised when it awaited gather
C14_Witness ==
    /\ wpc = "raised"
    /\ \E i \in 1..Len(tpc) : tpc[i] = "failed" /\ sends[i] = 1
    /\ \E i \in 1..Len(tpc) : tpc[i] = "completed"
    /\ Len(tasks) = MaxChunks

\* C15: a task that holds a permit is still subject to the rate window: a
\* call the limiter rejects has sent nothing and sleeps, permit in hand, for
\* what is left of the window, and no window sees more than 5 requests start.
C15_GateThenRateWindow ==
    /\ window_starts <= MAX_CALLS_PER_SECOND
    /\ \A i \in 1..Len(tpc) :
          /\ tpc[i] = "rate_wait" =>
                /\ sends[i] = 0
                /\ MAX_CALLS_PER_SECOND - sem >= Cardinality(Holders)
                /\ num_calls = MAX_CALLS_PER_SECOND + 1
                /\ sleep_left = period_remaining
          /\ tpc[i] = "retry" => sends[i] = 0 /\ period_remaining = 0

\* a task holds one of the permits, others being free, and sleeps because
\* the window has had its 5 calls
C15_Witness ==
    \E i \in 1..Len(tpc) :
        /\ tpc[i] = "rate_wait"
        /\ sleep_left > 0
        /\ sem > 0
        /\ window_starts = MAX_CALLS_PER_SECOND

\* the semaphore exists: line 44 has run
SemCreated == wpc # "head" /\ ~(wpc = "raised" /\ tasks = << >>)

\* C17: free permits plus tasks holding a permit is always 5; a task whose
\* request failed holds none.
C17_PermitsConserved ==
    SemCreated =>
        /\ sem + Cardinality(Holders) = MAX_CALLS_PER_SECOND
        /\ sem >= 0

\* a request failed and all five permits are free again
C17_Witness ==
    /\ wpc = "gather"
    /\ \E i \in 1..Len(tpc) : tpc[i] = "failed"
    /\ sem = MAX_CALLS_PER_SECOND
    /\ Len(tasks) = MaxChunks

\* C18: once the head lookup has succeeded, if the upstream answers every
\* request and the event loop keeps running, the aggregate fetch ends: it
\* returns, every task having been admitted, sent and completed, when every
\* answer was a success, and it raises otherwise; the launch loop, the
\* semaphore and the sleep of the rate limiter never block one another for
\* good.
C18_NoDeadlock ==
    (wpc = "loop") ~>
        \/ /\ wpc = "returned"
           /\ \A i \in 1..Len(tpc) : tpc[i] = "completed" /\ sends[i] = 1
           /\ Len(tpc) = RangeLen(week_ago, latest, CHUNK)
        \/ wpc = "raised" /\ faults > 0

\* the aggregate fetch returned: every task completed and every permit is free
C18_Witness ==
    /\ wpc = "returned"
    /\ Len(tasks) = MaxChunks
    /\ \A i \in 1..Len(tpc) : tpc[i] = "completed" /\ sends[i] = 1
    /\ sem = MAX_CALLS_PER_SECOND
    /\ launch_elapsed = LaunchCap

\* the least time, in ticks, from the creation of the first task to that of
\* the n-th
LaunchDelay(n) ==
    IF n > MAX_CALLS_PER_SECOND
    THEN (n - MAX_CALLS_PER_SECOND) * LAUNCH_SLEEP * TicksPerSecond ELSE 0

\* C19: the first 5 tasks are created with no time passing between them; from
\* the 5th on every creation is followed by a 1-second sleep, so the n-th
\* task (n >= 5) is created no earlier than n - 5 seconds after the first;
\* gather is awaited only when every chunk has its task.
C19_LaunchPacing ==
    [][/\ Len(tasks') > Len(tasks) =>
              /\ Len(tasks') = Len(tasks) + 1
              /\ launch_elapsed' >= LaunchDelay(Len(tasks'))
              /\ Len(tasks') <= MAX_CALLS_PER_SECOND => launch_elapsed' = 0
              /\ Len(tasks') < MAX_CALLS_PER_SECOND => wpc' = "loop"
              /\ Len(tasks') >= MAX_CALLS_PER_SECOND =>
                    /\ wpc' = "sleep"
                    /\ main_sleep_left' = LAUNCH_SLEEP * TicksPerSecond
       /\ (wpc = "sleep" /\ wpc' = "loop") => main_sleep_left = 0
       /\ wpc' = "gather" => Len(tasks') = RangeLen(week_ago', latest', CHUNK)]_vars

\* the sixth task has just been created, 1 second after the first five
C19_Witness ==
    /\ Len(tasks) = MAX_CALLS_PER_SECOND + 1
    /\ wpc = "sleep"
    /\ main_sleep_left = LAUNCH_SLEEP * TicksPerSecond
    /\ launch_elapsed = LaunchDelay(MAX_CALLS_PER_SECOND + 1)
    /\ tpc[MAX_CALLS_PER_SECOND + 1] = "pending"

-----------------------------------------------------------------------------
(* Properties of SpecRange *)

\* the blocks the query of task i asks for
Covered(i) == tasks[i].block_number .. (tasks[i].block_number + tasks[i].count - 1)

\* C7: the queries partition [start_block, end_block): no query covers a
\* block outside the range and every block of the range is covered by
\* exactly one query.
C7_QueriesPartitionRange ==
    wpc = "gather" =>
        /\ \A i \in 1..Len(tasks) :
              /\ tasks[i].block_number >= week_ago
              /\ tasks[i].block_number + tasks[i].count - 1 < latest
        /\ \A b \in week_ago..(latest - 1) :
              Cardinality({i \in 1..Len(tasks) : b \in Covered(i)}) = 1

\* C10: the weekly range starts at head - 46523 and ends at head, the head
\* being what the chain-head lookup returned; when the lookup fails the
\* failure reaches the caller after that one attempt and no task exists.
C10_WeeklyRange ==
    /\ head_lookups <= 1
    /\ wpc \in {"loop", "sleep", "gather"} =>
          /\ head_lookups = 1
          /\ week_ago = latest - WEEK_BLOCKS
          /\ \A i \in 1..Len(tasks) :
                /\ tasks[i].block_number >= latest - WEEK_BLOCKS
                /\ tasks[i].block_number < latest
          /\ Len(tasks) > 0 => tasks[1].block_number = latest - WEEK_BLOCKS
    /\ wpc = "gather" =>
          /\ Len(tasks) > 0
          /\ tasks[Len(tasks)].block_number + CHUNK >= latest
    /\ wpc = "raised" =>
          /\ head_lookups = 1
          /\ tasks = << >>
          /\ \A i \in 1..Len(sends) : sends[i] = 0

\* the head 18000000 gave the 466 chunks from block 17953477 on
C10_Witness ==
    /\ wpc = "gather"
    /\ latest = 18000000
    /\ week_ago = 17953477
    /\ Len(tasks) = 466
    /\ tasks[466].block_number = 17999977

-----------------------------------------------------------------------------
(* preprocess and get_scan_address_data_from_mev_transactions,               *)
(* src/bots/lib/zero_mev/transformers.py.  A frame is the sequence of its   *)
(* rows; a cell of a numeric column is the set of its value, NaN the empty  *)
(* set; amounts are whole dollars.                                          *)

\* rows in the frames preprocess is called with
MaxTxs == 2

\* a missing value
NaN == {}

\* the value v
Num(v) == {v}

\* pandas.isna
IsNa(x) == x = NaN

\* the number in a cell that is not NaN
ValueOf(x) == CHOOSE v \in x : TRUE

\* protocol names, in the lexical order in which groupby sorts its keys
Protocols == <<"A", "B">>

\* the protocol of a row that has none
NoProtocol == "NaN"

MevTypes == {"sandwich", "arb"}

\* the upstream's signs are not consistent: a loss may come as a negative
\* number, or not at all
Losses == {NaN, Num(-100), Num(30)}
Profits == {NaN, Num(-7)}

\* the rows of the frames
TxRows ==
    {[protocol |-> p, mev_type |-> t, user_loss_usd |-> l,
      extractor_profit_usd |-> e,
      user_swap_count |-> Num(IF t = "sandwich" THEN 2 ELSE 1)] :
        p \in {Protocols[i] : i \in 1..Len(Protocols)} \cup {NoProtocol},
        t \in MevTypes, l \in Losses, e \in Profits}

Frames == UNION {[1..n -> TxRows] : n \in 0..MaxTxs}

\* transformers.py:16-18  the values the three configuration arguments take
DropnaChoices == {<<"user_loss_usd">>, << >>, <<"user_loss_usd", "extractor_profit_usd">>}
ProtocolFilters == {<< >>, <<"A">>}
TypeFilters == {<< >>, <<"sandwich">>}

\* transformers.py:23-28  abs of a column cell: abs(NaN) is NaN
Abs(x) == {IF v < 0 THEN -v ELSE v : v \in x}

\* transformers.py:23-28  both amount columns are replaced by their abs
Normalize(f) ==
    [i \in 1..Len(f) |->
        [f[i] EXCEPT !.user_loss_usd = Abs(@), !.extractor_profit_usd = Abs(@)]]

\* transformers.py:29  dropna(subset=cols): rows with NaN in one of cols go
Dropna(f, cols) ==
    SelectSeq(f, LAMBDA r : \A j \in 1..Len(cols) : ~IsNa(r[cols[j]]))

\* Series.isin(values)
Isin(v, values) == \E j \in 1..Len(values) : values[j] = v

\* a filter that is applied whatever the list
FilterAlways(values) == TRUE

\* transformers.py:30, 34  if len(protocols_filter): / if len(type_filter):
FilterApplies(values) == Len(values) > 0

\* transformers.py:30-37  frame[frame[col].isin(values)] when values is not empty
Restrict(f, col, values) ==
    IF FilterApplies(values)
    THEN SelectSeq(f, LAMBDA r : Isin(r[col], values))
    ELSE f

\* transformers.py:14-39
preprocess(f, cols, protocols, types) ==
    IF f = << >> THEN f
    ELSE Restrict(Restrict(Dropna(Normalize(f), cols), "protocol", protocols),
                  "mev_type", types)

RECURSIVE ColumnSum(_, _)
\* Series.sum(): NaN is skipped, and the sum of no value is 0
ColumnSum(f, col) ==
    IF f = << >> THEN 0
    ELSE (IF IsNa(Head(f)[col]) THEN 0 ELSE ValueOf(Head(f)[col]))
         + ColumnSum(Tail(f), col)

\* the rows of one group of groupby("protocol")
GroupRows(f, p) == SelectSeq(f, LAMBDA r : r.protocol = p)

\* transformers.py:46  groupby("protocol")["user_loss_usd"].sum(): one entry
\* for each protocol that occurs, in the sorted order of the keys; rows with
\* no protocol are in no group
mev_by_protocol(f) ==
    LET present == SelectSeq(Protocols, LAMBDA p : GroupRows(f, p) # << >>)
    IN  [i \in 1..Len(present) |->
            [label |-> present[i],
             value |-> ColumnSum(GroupRows(f, present[i]), "user_loss_usd")]]

\* transformers.py:48  Series.max()
SeriesMax(s) ==
    CHOOSE m \in {s[i].value : i \in 1..Len(s)} : \A i \in 1..Len(s) : s[i].value <= m

\* the label of the last entry that has the maximum
idxmax_last(s) ==
    s[CHOOSE i \in 1..Len(s) :
        /\ s[i].value = SeriesMax(s)
        /\ \A j \in (i + 1)..Len(s) : s[j].value # SeriesMax(s)].label

\* transformers.py:47  Series.idxmax(): the label of the first entry that has
\* the maximum
idxmax(s) ==
    s[CHOOSE i \in 1..Len(s) :
        /\ s[i].value = SeriesMax(s)
        /\ \A j \in 1..(i - 1) : s[j].value # SeriesMax(s)].label

\* transformers.py:47  idxmax of an empty series raises ValueError
ScanRaises(f) == mev_by_protocol(f) = << >>

\* transformers.py:42-57
get_scan_address_data_from_mev_transactions(f, address) ==
    [address |-> address,
     total_amount_usd |-> ColumnSum(f, "user_loss_usd"),
     mev_txs_length |-> ColumnSum(f, "user_swap_count"),
     most_mev_protocol_name |-> idxmax(mev_by_protocol(f)),
     most_mev_protocol_usd_amount |-> SeriesMax(mev_by_protocol(f))]

\* the address that is scanned
ScannedAddress == "0xabc"

\* transformers.py:14-39  the bot preprocesses the transactions of the address
Preprocess ==
    /\ spc = "start"
    /\ frame' = preprocess(mev_transactions, dropna_columns, protocols_filter,
                           type_filter)
    /\ spc' = "preprocessed"
    /\ UNCHANGED <<mev_transactions, dropna_columns, protocols_filter,
                   type_filter, scan, templateVars, addrVars, limiterVars,
                   rateVars, weekVars>>

\* transformers.py:42-57  and summarizes what preprocess returned
Scan ==
    /\ spc = "preprocessed"
    /\ IF ScanRaises(frame)
       THEN /\ spc' = "raised"
            /\ UNCHANGED scan
       ELSE /\ spc' = "scanned"
            /\ scan' = get_scan_address_data_from_mev_transactions(frame, ScannedAddress)
    /\ UNCHANGED <<mev_transactions, dropna_columns, protocols_filter,
                   type_filter, frame, templateVars, addrVars, limiterVars,
                   rateVars, weekVars>>

InitScan ==
    /\ spc = "start"
    /\ mev_transactions \in Frames
    /\ dropna_columns \in DropnaChoices
    /\ protocols_filter \in ProtocolFilters
    /\ type_filter \in TypeFilters
    /\ frame = << >>
    /\ scan = NoScan
    /\ TemplateIdle
    /\ AddressStart /\ LimiterAt(0) /\ RateStart /\ WeekStart

NextScan == Preprocess \/ Scan

SpecScan == InitScan /\ [][NextScan]_vars

-----------------------------------------------------------------------------
(* Properties of SpecScan *)

\* the values of a column, NaN left out, as a sequence of numbers
Present(f, col) ==
    LET g == SelectSeq(f, LAMBDA r : r[col] # NaN)
    IN  [i \in 1..Len(g) |-> ValueOf(g[i][col])]

\* C11 as stated: after preprocess no user_loss_usd and no
\* extractor_profit_usd is negative, and for every transaction set the scan
\* of the preprocessed set yields a total_amount_usd that is the sum of the
\* normalized user_loss_usd values and is >= 0.
C11_NormalizedTotal ==
    /\ spc # "start" =>
          \A i \in 1..Len(frame) :
              /\ \A v \in frame[i].user_loss_usd : v >= 0
              /\ \A v \in frame[i].extractor_profit_usd : v >= 0
    /\ spc \in {"scanned", "raised"} =>
          /\ spc = "scanned"
          /\ scan.total_amount_usd = SumSeq(Present(frame, "user_loss_usd"))
          /\ scan.total_amount_usd >= 0

\* the summed loss of the rows of protocol p
LossOf(f, p) ==
    SumSeq([i \in 1..Len(f) |->
              IF f[i].protocol = p /\ f[i].user_loss_usd # NaN
              THEN ValueOf(f[i].user_loss_usd) ELSE 0])

\* the protocols that occur in the frame
ProtocolsOf(f) == {f[i].protocol : i \in 1..Len(f)} \ {NoProtocol}

\* the place of a protocol name in the lexical order
Rank(p) == CHOOSE i \in 1..Len(Protocols) : Protocols[i] = p

\* the orders in which n rows can come, and the frame in one of them
RowOrders(n) == {q \in [1..n -> 1..n] : \A i, j \in 1..n : i # j => q[i] # q[j]}
Rearranged(f, q) == [i \in 1..Len(f) |-> f[q[i]]]

\* C12: the protocol named is one whose summed user_loss_usd is maximal, the
\* amount is that sum, and among several protocols with the maximal sum the
\* lexically smallest is named; the scan is the same whatever the order of
\* the rows.
C12_MostCostlyProtocol ==
    spc = "scanned" =>
        /\ scan.most_mev_protocol_name \in ProtocolsOf(frame)
        /\ scan.most_mev_protocol_usd_amount = LossOf(frame, scan.most_mev_protocol_name)
        /\ \A p \in ProtocolsOf(frame) :
              /\ LossOf(frame, p) <= scan.most_mev_protocol_usd_amount
              /\ LossOf(frame, p) = scan.most_mev_protocol_usd_amount
                    => Rank(scan.most_mev_protocol_name) <= Rank(p)
        /\ \A q \in RowOrders(Len(frame)) :
              get_scan_address_data_from_mev_transactions(Rearranged(frame, q), ScannedAddress)
                  = scan

\* "B" comes first in the frame, "A" and "B" both sum to 100, and "A" is named
C12_Witness ==
    /\ spc = "scanned"
    /\ Len(frame) = 2
    /\ frame[1].protocol = "B" /\ frame[2].protocol = "A"
    /\ LossOf(frame, "A") = 100 /\ LossOf(frame, "B") = 100
    /\ scan.most_mev_protocol_name = "A"
    /\ scan.most_mev_protocol_usd_amount = 100

\* the row passes the filters preprocess was configured with
Kept(r) ==
    /\ \A j \in 1..Len(dropna_columns) : r[dropna_columns[j]] # NaN
    /\ protocols_filter = << >>
          \/ r.protocol \in {protocols_filter[j] : j \in 1..Len(protocols_filter)}
    /\ type_filter = << >>
          \/ r.mev_type \in {type_filter[j] : j \in 1..Len(type_filter)}

\* the input rows that pass the filters, in their order
KeptRows == SelectSeq(mev_transactions, Kept)

\* the magnitude of a number
Magnitude(v) == IF v < 0 THEN 0 - v ELSE v

\* C16: for a non-empty input the output of preprocess is exactly the input
\* rows with no NaN in the dropna columns, with a protocol in protocols_filter
\* when that list is not empty and an mev_type in type_filter when that list
\* is not empty, in their order and with their amounts normalized; the sums
\* of the scan are sums over these rows only.
C16_FiltersBeforeSums ==
    spc # "start" =>
        /\ Len(frame) = Len(KeptRows)
        /\ \A i \in 1..Len(frame) :
              /\ frame[i].protocol = KeptRows[i].protocol
              /\ frame[i].mev_type = KeptRows[i].mev_type
              /\ frame[i].user_swap_count = KeptRows[i].user_swap_count
              /\ frame[i].user_loss_usd
                    = {Magnitude(v) : v \in KeptRows[i].user_loss_usd}
              /\ frame[i].extractor_profit_usd
                    = {Magnitude(v) : v \in KeptRows[i].extractor_profit_usd}
        /\ spc = "scanned" =>
              /\ scan.total_amount_usd
                    = SumSeq([i \in 1..Len(KeptRows) |->
                                IF KeptRows[i].user_loss_usd = NaN THEN 0
                                ELSE Magnitude(ValueOf(KeptRows[i].user_loss_usd))])
              /\ scan.mev_txs_length
                    = SumSeq(Present(KeptRows, "user_swap_count"))

\* of two rows with a loss the type filter kept one, the empty protocols
\* filter removed none, and the total is the loss of the row kept
C16_Witness ==
    /\ spc = "scanned"
    /\ Len(mev_transactions) = 2
    /\ mev_transactions[1].mev_type = "arb"
    /\ mev_transactions[1].user_loss_usd = Num(-100)
    /\ mev_transactions[2].user_loss_usd = Num(30)
    /\ mev_transactions[2].protocol = "B"
    /\ protocols_filter = << >>
    /\ type_filter = <<"sandwich">>
    /\ Len(frame) = 1
    /\ scan.total_amount_usd = 30
    /\ scan.mev_txs_length = 2

-----------------------------------------------------------------------------
(* create_twitter_post and create_discord_embed of AbstractTemplate,         *)
(* src/bots/lib/templates/__init__.py:56-110.  The rendering of the title,  *)
(* the stats and the footer does not look at the image arguments and is not *)
(* modelled beyond the key it is stored under.                              *)

\* templates/__init__.py:128-268  the template classes
Templates ==
    {"AddressScanTemplate", "WeekOverviewNumberOfSwaps",
     "WeekOverviewExtractedAmount", "WeekOverviewProfitAmount",
     "WeekOverviewDex", "WeekOverviewVictims"}

\* templates/__init__.py:161, 189, 217, 245  the classes that override
\* _generate_image; the others inherit the one that raises
OverridesGenerateImage ==
    {"WeekOverviewNumberOfSwaps", "WeekOverviewExtractedAmount",
     "WeekOverviewProfitAmount", "WeekOverviewDex"}

\* a list passed as x_image or y_image
Given(items) == [given |-> TRUE, items |-> items]

\* what a caller may pass as x_image and as y_image
XSeries == {None, Given(<< >>), Given(<<"sandwich", "arb">>)}
YSeries == {None, Given(<< >>), Given(<<3, 4>>)}

\* a test that takes an empty list for a series
FalsyOnlyNone(a) == ~a.given

\* templates/__init__.py:76, 102  not x_image: None and the empty list
Falsy(a) == ~a.given \/ Len(a.items) = 0

\* templates/__init__.py:76, 102  if not x_image or not y_image
SeriesMissing(x, y) == Falsy(x) \/ Falsy(y)

\* templates/__init__.py:56-79 and 81-110: text_key is the key of the
\* rendered message and image_key the key of the image; only the embed is
\* told of its image
CreateMessage(text_key, image_key, embed) ==
    /\ cpc = "call"
    /\ IF ~has_image
       THEN /\ cpc' = "returned"
            /\ output' = [keys |-> {text_key}, image |-> << >>, embed_image |-> FALSE]
            /\ UNCHANGED <<error, generated>>
       ELSE IF SeriesMissing(x_image, y_image)
       THEN /\ cpc' = "raised"
            /\ error' = "ValueError"
            /\ UNCHANGED <<output, generated>>
       ELSE IF cls \notin OverridesGenerateImage
       THEN /\ cpc' = "raised"
            /\ error' = "NotImplementedError"
            /\ generated' = generated + 1
            /\ UNCHANGED output
       ELSE /\ cpc' = "returned"
            /\ generated' = generated + 1
            /\ output' = [keys |-> {text_key, image_key},
                          image |-> <<x_image.items, y_image.items>>,
                          embed_image |-> embed]
            /\ UNCHANGED error
    /\ UNCHANGED <<cls, has_image, x_image, y_image, scanVars, addrVars,
                   limiterVars, rateVars, weekVars>>

\* templates/__init__.py:56-79
create_twitter_post == CreateMessage("text", "image", FALSE)

\* templates/__init__.py:81-110
create_discord_embed == CreateMessage("embed", "file", TRUE)

InitTemplate ==
    /\ TemplateStart
    /\ cls \in Templates
    /\ has_image \in BOOLEAN
    /\ x_image \in XSeries
    /\ y_image \in YSeries
    /\ ScanIdle
    /\ AddressStart /\ LimiterAt(0) /\ RateStart /\ WeekStart

NextTemplate == create_twitter_post \/ create_discord_embed

SpecTemplate == InitTemplate /\ [][NextTemplate]_vars

-----------------------------------------------------------------------------
(* Properties of SpecTemplate *)

\* the argument was left out or is an empty list
NotSupplied(a) == a = None \/ a.items = << >>

\* C13: with has_image and a series that is missing or empty, both methods
\* raise ValueError and the image generator is not called; without has_image
\* they return, whatever the series, a dict with the message alone: no image,
\* no file, and no image set on the embed.
C13_ImageNeedsBothSeries ==
    cpc # "call" =>
        /\ (has_image /\ (NotSupplied(x_image) \/ NotSupplied(y_image))) =>
              /\ cpc = "raised"
              /\ error = "ValueError"
              /\ generated = 0
        /\ ~has_image =>
              /\ cpc = "returned"
              /\ error = ""
              /\ generated = 0
              /\ output.keys \in {{"text"}, {"embed"}}
              /\ output.image = << >>
              /\ ~output.embed_image

\* an image was asked of a class that can draw one, with x_image and an
\* empty y_image, and the call raised before drawing
C13_Witness ==
    /\ cpc = "raised"
    /\ has_image
    /\ cls \in OverridesGenerateImage
    /\ x_image = Given(<<"sandwich", "arb">>)
    /\ y_image = Given(<< >>)
    /\ error = "ValueError"
    /\ generated = 0

====
